---- MODULE Spec2Model ----
(***************************************************************************)
(* Model of telegram_clima_agenda.py: a run-once job that fetches a        *)
(* two-day weather forecast and today's calendar events and sends them to  *)
(* a Telegram chat.                                                        *)
(*                                                                         *)
(* Conventions of the model                                                *)
(*  - A Python value that may be None is a sequence of length 0 or 1:      *)
(*    None is <<>> and a present value v is <<v>>.                         *)
(*  - An instant on a clock is a number of seconds; a datetime is a record *)
(*    [wall, utcoff]: wall-clock seconds and the UTC offset in hours of    *)
(*    its tzinfo (None for a naive datetime).  An Arrow object is a record *)
(*    with a field "datetime".                                             *)
(*  - A time zone is one without daylight saving (a fixed UTC offset), as  *)
(*    the default America/Argentina/Cordoba is.                            *)
(*  - Strings are TLA+ strings built by concatenation, as the f-strings    *)
(*    build them.  Non-ASCII characters of the source's literals are       *)
(*    written in ASCII: an emoji as :name:, the dash as --, the bullet as  *)
(*    :bullet:, the backquote as ', accents dropped.                       *)
(*  - The message text is the sequence of the parts the code concatenates. *)
(***************************************************************************)
EXTENDS Integers, Sequences, FiniteSets, TLC

VARIABLES
    cfg,        \* module globals read from the environment (lines 23-33)
    now,        \* the UTC instant datetime.now() returns in this run
    web,        \* what each calendar URL of the list answers, by position
    pc,         \* position of the run
    place,      \* run(): lat, lon, city_shown once obtained
    daily,      \* run(): the forecast block returned by fetch_weather
    agenda,     \* the list returned by fetch_ics_events_today
    outcome,    \* whether the last call of fetch_ics_events_today raised
    msg,        \* run(): the local msg; format_agenda's text when called alone
    http,       \* log of the HTTP requests made, in order
    calls,      \* log of the invocations of send_telegram, in order
    err,        \* the exception propagating out of run(), if any
    status      \* exit status of the process, once it has exited

vars == <<cfg, now, web, pc, place, daily, agenda, outcome, msg, http, calls, err, status>>

-----------------------------------------------------------------------------
(* Python values *)

None == <<>>

Some(v) == <<v>>

\* Python truthiness of an optional string: None and "" are falsy.
Truthy(x) == x # None /\ x[1] # ""

Digit(d) ==
    CASE d = 0 -> "0" [] d = 1 -> "1" [] d = 2 -> "2" [] d = 3 -> "3"
      [] d = 4 -> "4" [] d = 5 -> "5" [] d = 6 -> "6" [] d = 7 -> "7"
      [] d = 8 -> "8" [] d = 9 -> "9"

RECURSIVE NatStr(_)
NatStr(n) == IF n < 10 THEN Digit(n) ELSE NatStr(n \div 10) \o Digit(n % 10)

\* str(n) of an int, as an f-string field renders it.
IntStr(n) == IF n < 0 THEN "-" \o NatStr(-n) ELSE NatStr(n)

\* An f-string field of an optional int or optional string.
FmtInt(x) == IF x = None THEN "None" ELSE IntStr(x[1])

FmtStr(x) == IF x = None THEN "None" ELSE x[1]

\* A %H or %M field of strftime: two digits.
Pad2(n) == IF n < 10 THEN "0" \o Digit(n) ELSE NatStr(n)

RECURSIVE Join(_, _)
Join(lines, sep) ==
    IF lines = <<>> THEN ""
    ELSE IF Len(lines) = 1 THEN lines[1]
    ELSE lines[1] \o sep \o Join(Tail(lines), sep)

-----------------------------------------------------------------------------
(* Time *)

HourSecs == 3600

MinuteSecs == 60

DaySecs == 86400

\* tz.gettz: the zone of a known name, None for an unknown one.
gettz(tzname) ==
    CASE tzname = "America/Argentina/Cordoba" -> Some(-3)
      [] tzname = "UTC" -> Some(0)
      [] tzname = "Australia/Brisbane" -> Some(10)
      [] OTHER -> None

Datetime(wall, utcoff) == [wall |-> wall, utcoff |-> utcoff]

Arrow(d) == [datetime |-> d]

\* datetime.now(tzlocal).replace(hour=0, minute=0, second=0, microsecond=0)
WindowStart(instant, off) ==
    LET wall == instant + off * HourSecs
    IN  Datetime(wall - (wall % DaySecs), Some(off))

\* start + dt.timedelta(days=1): wall-clock addition
WindowEnd(start) == Datetime(start.wall + DaySecs, start.utcoff)

\* The nested to_local_dt(x), for the zone with offset off.
to_local_dt(x, off) ==
    LET d  == IF "datetime" \in DOMAIN x THEN x.datetime ELSE x
        du == IF d.utcoff = None THEN Datetime(d.wall, Some(0)) ELSE d
    IN  Datetime(du.wall - du.utcoff[1] * HourSecs + off * HourSecs, Some(off))

-----------------------------------------------------------------------------
(* Calendar events of today: fetch_ics_events_today *)

\* A URL is the sequence of its characters.  str.strip(chars) removes the
\* characters of the set cs from both ends.
RECURSIVE LStrip(_, _)
LStrip(s, cs) == IF s # <<>> /\ Head(s) \in cs THEN LStrip(Tail(s), cs) ELSE s

RECURSIVE RStrip(_, _)
RStrip(s, cs) ==
    IF s # <<>> /\ s[Len(s)] \in cs THEN RStrip(SubSeq(s, 1, Len(s) - 1), cs) ELSE s

Strip(s, cs) == RStrip(LStrip(s, cs), cs)

Whitespace == {" ", "\t", "\n"}

\* (raw or "").strip().strip('"').strip("'")
CleanUrl(raw) ==
    LET r == IF raw = None THEN <<>> ELSE raw[1]
    IN  Strip(Strip(Strip(r, Whitespace), {"\""}), {"'"})

\* The tuple appended for an event: (s, t, e.name, e.all_day, location).
EventTuple(e, off) ==
    <<to_local_dt(e.begin[1], off),
      to_local_dt(IF e.end # None THEN e.end[1] ELSE e.begin[1], off),
      e.name, e.all_day, e.location>>

\* The test with the bounds of the window included.
IntersectsClosed(s, t, start, end) == t.wall >= start.wall /\ s.wall <= end.wall

\* The test of line 132: t > start and s < end.  The operands carry the same
\* tzinfo, so Python compares their wall-clock values.
Intersects(s, t, start, end) == t.wall > start.wall /\ s.wall < end.wall

\* The loop over cal.events of one calendar.  With a zone that gettz does not
\* know, start is naive and s, t are aware: the comparison raises TypeError
\* at the first event that has a begin.
RECURSIVE KeepEvents(_, _, _, _)
KeepEvents(evs, tzl, instant, acc) ==
    IF evs = <<>> THEN [raised |-> FALSE, events |-> acc]
    ELSE LET e == Head(evs)
         IN  IF e.begin = None THEN KeepEvents(Tail(evs), tzl, instant, acc)
             ELSE IF tzl = None THEN [raised |-> TRUE, events |-> acc]
             ELSE LET off   == tzl[1]
                      start == WindowStart(instant, off)
                      end   == WindowEnd(start)
                      tup   == EventTuple(e, off)
                  IN  KeepEvents(Tail(evs), tzl, instant,
                                 IF Intersects(tup[1], tup[2], start, end)
                                 THEN Append(acc, tup) ELSE acc)

\* An insertion that puts an event before those of the same start.
RECURSIVE InsertBeforeEqual(_, _)
InsertBeforeEqual(sorted, x) ==
    IF sorted = <<>> THEN <<x>>
    ELSE IF sorted[Len(sorted)][1].wall < x[1].wall THEN Append(sorted, x)
    ELSE Append(InsertBeforeEqual(SubSeq(sorted, 1, Len(sorted) - 1), x), sorted[Len(sorted)])

\* list.sort(key=lambda x: x[0]): a stable sort by the local start.
RECURSIVE InsertByStart(_, _)
InsertByStart(sorted, x) ==
    IF sorted = <<>> THEN <<x>>
    ELSE IF sorted[Len(sorted)][1].wall <= x[1].wall THEN Append(sorted, x)
    ELSE Append(InsertByStart(SubSeq(sorted, 1, Len(sorted) - 1), x), sorted[Len(sorted)])

RECURSIVE SortByStart(_)
SortByStart(evs) ==
    IF evs = <<>> THEN <<>>
    ELSE InsertByStart(SortByStart(SubSeq(evs, 1, Len(evs) - 1)), evs[Len(evs)])

\* The loop leaving at the first URL that fails, instead of going on.
RECURSIVE FetchLoopAbort(_, _, _, _, _, _, _)
FetchLoopAbort(urls, answers, tzl, instant, i, events, requests) ==
    IF i > Len(urls)
    THEN [raised |-> FALSE, events |-> SortByStart(events), requests |-> requests]
    ELSE IF CleanUrl(urls[i]) = <<>>
         THEN FetchLoopAbort(urls, answers, tzl, instant, i + 1, events, requests)
    ELSE IF ~answers[i].ok
         THEN [raised |-> FALSE, events |-> SortByStart(events),
               requests |-> Append(requests, i)]
    ELSE LET kept == KeepEvents(answers[i].events, tzl, instant, events)
         IN  IF kept.raised
             THEN [raised |-> TRUE, events |-> <<>>, requests |-> Append(requests, i)]
             ELSE FetchLoopAbort(urls, answers, tzl, instant, i + 1, kept.events,
                                 Append(requests, i))

\* The loop over urls (lines 115-133), from position i on, and the sort and
\* return that follow it.  answers[i] is what the i-th URL answers:
\* [ok |-> FALSE] when the request or the parse fails, [ok |-> TRUE,
\* events |-> ...] otherwise.  requests lists the positions for which
\* requests.get was called.
RECURSIVE FetchLoop(_, _, _, _, _, _, _)
FetchLoop(urls, answers, tzl, instant, i, events, requests) ==
    IF i > Len(urls)
    THEN [raised |-> FALSE, events |-> SortByStart(events), requests |-> requests]
    ELSE IF CleanUrl(urls[i]) = <<>>
         THEN FetchLoop(urls, answers, tzl, instant, i + 1, events, requests)
    ELSE IF ~answers[i].ok
         THEN FetchLoop(urls, answers, tzl, instant, i + 1, events, Append(requests, i))
    ELSE LET kept == KeepEvents(answers[i].events, tzl, instant, events)
         IN  IF kept.raised
             THEN [raised |-> TRUE, events |-> <<>>, requests |-> Append(requests, i)]
             ELSE FetchLoop(urls, answers, tzl, instant, i + 1, kept.events,
                            Append(requests, i))

\* fetch_ics_events_today(urls, tzname), at the instant the clock shows, with
\* the URLs answering as in answers.
fetch_ics_events_today(urls, tzname, instant, answers) ==
    FetchLoop(urls, answers, gettz(tzname), instant, 1, <<>>, <<>>)

-----------------------------------------------------------------------------
(* format_agenda *)

NoEventsText == ":calendar: *Agenda de hoy*\n(No hay eventos)\n"

AgendaHeader == ":calendar: *Agenda de hoy*"

\* The duration with the minutes rounded to the nearest instead of truncated.
DurationStrRounded(s, t) ==
    LET mins == (t.wall - s.wall + 30) \div MinuteSecs
        hh   == mins \div 60
        mm   == mins % 60
    IN  IF hh # 0 THEN IntStr(hh) \o "h " \o IntStr(mm) \o "m" ELSE IntStr(mm) \o "m"

\* dstr of lines 147-149 for an event from s to t
DurationStr(s, t) ==
    LET mins == (t.wall - s.wall) \div MinuteSecs
        hh   == mins \div 60
        mm   == mins % 60
    IN  IF hh # 0 THEN IntStr(hh) \o "h " \o IntStr(mm) \o "m" ELSE IntStr(mm) \o "m"

\* s.strftime("%H:%M")
ClockStr(s) ==
    Pad2((s.wall % DaySecs) \div HourSecs) \o ":" \o Pad2((s.wall % HourSecs) \div MinuteSecs)

\* The line appended for one event tuple (lines 143-151).
EventLine(ev) ==
    IF ev[4]
    THEN ":bullet: (Todo el dia) -- *" \o FmtStr(ev[3]) \o "*"
    ELSE ClockStr(ev[1]) \o " (" \o DurationStr(ev[1], ev[2]) \o ") -- *"
         \o FmtStr(ev[3]) \o "*"
         \o (IF Truthy(ev[5]) THEN " @ " \o ev[5][1] ELSE "")

AgendaLines(events) == <<AgendaHeader>> \o [i \in 1..Len(events) |-> EventLine(events[i])]

format_agenda(events) ==
    IF events = <<>> THEN NoEventsText ELSE Join(AgendaLines(events), "\n") \o "\n"

-----------------------------------------------------------------------------
(* Weather text: nice_weather_text_2days *)

\* WMO_DESC.get(wcode, ("", "")): <<description, icon>>
WMO_DESC(wcode) ==
    CASE wcode = 0 -> <<"Despejado", ":sun:">>
      [] wcode = 1 -> <<"Mayormente despejado", ":sun_small_cloud:">>
      [] wcode = 2 -> <<"Parcialmente nublado", ":sun_behind_cloud:">>
      [] wcode = 3 -> <<"Nublado", ":cloud:">>
      [] wcode = 45 -> <<"Niebla", ":fog:">>
      [] wcode = 48 -> <<"Niebla escarchada", ":fog:">>
      [] wcode = 51 -> <<"Llovizna ligera", ":sun_rain:">>
      [] wcode = 53 -> <<"Llovizna", ":sun_rain:">>
      [] wcode = 55 -> <<"Llovizna fuerte", ":rain:">>
      [] wcode = 61 -> <<"Lluvia ligera", ":rain:">>
      [] wcode = 63 -> <<"Lluvia", ":rain:">>
      [] wcode = 65 -> <<"Lluvia fuerte", ":rain:">>
      [] wcode = 71 -> <<"Nieve ligera", ":snow:">>
      [] wcode = 73 -> <<"Nieve", ":snow:">>
      [] wcode = 75 -> <<"Nieve fuerte", ":snowflake:">>
      [] wcode = 80 -> <<"Chubascos", ":rain:">>
      [] wcode = 81 -> <<"Chubascos", ":rain:">>
      [] wcode = 82 -> <<"Chubascos fuertes", ":thunder_rain:">>
      [] wcode = 95 -> <<"Tormentas", ":thunder_rain:">>
      [] wcode = 96 -> <<"Tormentas con granizo", ":thunder_rain:">>
      [] wcode = 99 -> <<"Tormentas con granizo", ":thunder_rain:">>
      [] OTHER -> <<"", "">>

DayLabels == <<"Hoy", "Manana">>

\* Whether the reads of lines 82-87 succeed for the day idx (1 or 2): every
\* array has the entry, and sunrise and sunset are strings.  Temperatures are
\* whole degrees in the model; a sunrise or sunset is the record of the date
\* and the clock of an ISO string "<date>T<clock>", whose last five
\* characters are the clock.
DayReadable(data, idx) ==
    /\ \A k \in {"temperature_2m_min", "temperature_2m_max",
                 "precipitation_probability_max", "sunrise", "sunset", "weathercode"} :
          Len(data[k]) >= idx
    /\ data.sunrise[idx] # None
    /\ data.sunset[idx] # None

\* The paragraph appended for the day idx (lines 90-95).
DayParagraph(data, idx) ==
    LET wcode == data.weathercode[idx]
        w     == IF wcode = None THEN <<"", "">> ELSE WMO_DESC(wcode[1])
    IN  "\n*" \o DayLabels[idx] \o "* -- " \o w[2] \o " " \o w[1] \o "\n"
        \o "Temp: " \o FmtInt(data.temperature_2m_min[idx]) \o "C - "
        \o FmtInt(data.temperature_2m_max[idx]) \o "C :bullet: Precip.: "
        \o FmtInt(data.precipitation_probability_max[idx]) \o "%\n"
        \o "Amanecer: " \o data.sunrise[idx][1].clock
        \o "  Atardecer: " \o data.sunset[idx][1].clock

nice_weather_text_2days(city_shown, data) ==
    LET days == SelectSeq(<<1, 2>>, LAMBDA idx : DayReadable(data, idx))
    IN  Join(<<":sun_rain: *Clima -- " \o city_shown \o "*">>
             \o [i \in 1..Len(days) |-> DayParagraph(data, days[i])], "\n")

-----------------------------------------------------------------------------
(* The rain warning of run(), lines 174-180 *)

RainThreshold == 50

Banner == ":warning: *Probabilidad alta de lluvia (>=50%)*. Considera llevar paraguas.\n\n"

\* Whether lines 175-177 decide to warn; an exception in them (an entry
\* missing) is swallowed and means no warning.
RainWarning(data) ==
    LET pp == data.precipitation_probability_max
    IN  /\ Len(pp) >= 2
        /\ \/ (pp[1] # None /\ pp[1][1] >= RainThreshold)
           \/ (pp[2] # None /\ pp[2][1] >= RainThreshold)

-----------------------------------------------------------------------------
(* Inputs: the environment, the clock and what the network answers *)

MaxSources == 3

MaxEvents == 2

Day(n) == n * DaySecs

Today == Day(1)

Tomorrow == Day(2)

\* Constructors of the timestamps a calendar yields: an Arrow in UTC (what
\* ics yields), a naive datetime, a datetime with its own offset.
Utc(t) == Arrow(Datetime(t, Some(0)))

Naive(t) == Datetime(t, None)

Zoned(wall, off) == Datetime(wall, Some(off))

Event(begin, end, name, all_day, location) ==
    [begin |-> begin, end |-> end, name |-> name, all_day |-> all_day, location |-> location]

\* An all-day event dated today, with a naive begin and end.
Festival == Event(Some(Naive(Today)), Some(Naive(Tomorrow)), Some("Festival"), TRUE, None)

\* 90 minutes from 23:00 UTC of yesterday: 09:00-10:30 in Brisbane.
Meeting ==
    Event(Some(Utc(Today - HourSecs)), Some(Utc(Today + 30 * MinuteSecs)),
          Some("Meeting"), FALSE, Some("Office"))

\* 45 minutes 30 seconds that end exactly at 00:00 UTC of today.
Call ==
    Event(Some(Utc(Today - (45 * MinuteSecs + 30))), Some(Utc(Today)),
          Some("Call"), FALSE, Some(""))

\* Starts exactly at 00:00 UTC of tomorrow and ends 3 h 45 min later, after
\* the end of today in Cordoba.
Late ==
    Event(Some(Utc(Tomorrow)), Some(Utc(Tomorrow + 3 * HourSecs + 45 * MinuteSecs)),
          None, FALSE, Some("Bar"))

\* No begin.
Draft == Event(None, Some(Utc(Today + 10 * HourSecs)), Some("Draft"), FALSE, None)

\* 00:00 UTC of today, no end: the same start as Festival.
Ping == Event(Some(Utc(Today)), None, Some("Ping"), FALSE, None)

\* 09:00 of today in Cordoba as a datetime with offset -3; its end is 30
\* minutes 30 seconds before its begin.
Backwards ==
    Event(Some(Zoned(Today + 9 * HourSecs, -3)), Some(Utc(Today + 12 * HourSecs - 1830)),
          Some("Backwards"), FALSE, None)

EventPool == {Festival, Meeting, Call, Late, Draft, Ping, Backwards}

Failure == [ok |-> FALSE, events |-> <<>>]

Calendar(evs) == [ok |-> TRUE, events |-> evs]

SeqsUpTo(S, n) == UNION {[1..k -> S] : k \in 0..n}

\* The answers of n calendar URLs: the URLs of the set failing fail, and the
\* events evs are shared out among the others, owner[k] yielding evs[k].
AnswersOf(n, failing, evs, owner) ==
    [i \in 1..n |->
        IF i \in failing THEN Failure
        ELSE LET mine == SelectSeq([k \in 1..Len(evs) |-> k], LAMBDA k : owner[k] = i)
             IN  Calendar([k \in 1..Len(mine) |-> evs[mine[k]]])]

\* Entries of a URL list: a plain URL, a quoted one with blanks around, and
\* one that is empty once stripped.
PlainUrl == Some(<<"h">>)

QuotedUrl == Some(<<" ", "\"", "h", "\"", " ">>)

BlankUrl == Some(<<" ", "'", "'">>)

UrlPool == {PlainUrl, QuotedUrl, BlankUrl}

\* ICAL_URLS of lines 28-32, from the entries of the variable split at commas.
LoadUrls(entries) ==
    LET cleaned == [i \in 1..Len(entries) |-> CleanUrl(entries[i])]
        kept    == SelectSeq(cleaned, LAMBDA u : u # <<>>)
    IN  [i \in 1..Len(kept) |-> Some(kept[i])]

DefaultCity == "Agua de Oro, Cordoba, Argentina"

DefaultZone == "America/Argentina/Cordoba"

\* Forecast blocks for two days with the given precipitation probabilities.
Forecast(ppToday, ppTomorrow, wcode) ==
    [temperature_2m_min |-> <<Some(12), Some(9)>>,
     temperature_2m_max |-> <<Some(24), Some(19)>>,
     precipitation_probability_max |-> <<ppToday, ppTomorrow>>,
     sunrise |-> <<Some([date |-> "2024-05-01", clock |-> "07:45"]),
                   Some([date |-> "2024-05-02", clock |-> "07:46"])>>,
     sunset |-> <<Some([date |-> "2024-05-01", clock |-> "18:40"]),
                  Some([date |-> "2024-05-02", clock |-> "18:39"])>>,
     weathercode |-> <<Some(wcode), Some(95)>>]

ForecastPool ==
    {Forecast(None, None, 0), Forecast(Some(49), Some(49), 1000),
     Forecast(Some(50), None, 61), Forecast(None, Some(80), 3),
     Forecast(Some(100), Some(0), 95)}

-----------------------------------------------------------------------------
(* The run: run() under the handler of the __main__ block *)

\* float(s) of a coordinate variable; the value is kept as f"{v:.4f}" shows
\* it.  None stands for ValueError.
PyFloat(s) ==
    CASE s = "-31.06" -> Some("-31.0600")
      [] s = "-64.3" -> Some("-64.3000")
      [] OTHER -> None

\* The message of the ValueError of float(s): the string is shown as repr
\* shows it.
PyFloatError(s) == "could not convert string to float: '" \o s \o "'"

\* CITY of line 25
CITY == IF cfg.CITY = None THEN DefaultCity ELSE cfg.CITY[1]

\* What geocode(city) does with the answer of the geocoding service: an HTTP
\* failure, an answer without results, a first result that carries the name
\* of the place, or a first result without a name, for which line 56 falls
\* back on the city asked for.
GeocodeAnswers == {"http_error", "no_results", "found", "found_unnamed"}

ResultName == "Agua de Oro"

geocode(city, answer) ==
    CASE answer = "http_error" -> [raised |-> Some("HTTPError"), value |-> None]
      [] answer = "no_results" ->
            [raised |-> Some("No se encontraron coordenadas"), value |-> None]
      [] answer = "found" ->
            [raised |-> None,
             value |-> Some([lat |-> "-31.0600", lon |-> "-64.3000",
                             city_shown |-> ResultName])]
      [] answer = "found_unnamed" ->
            [raised |-> None,
             value |-> Some([lat |-> "-31.0600", lon |-> "-64.3000", city_shown |-> city])]

Request(kind, n) == [kind |-> kind, url |-> n]

\* A send_telegram that does not look at the credentials.
SendResultsUnchecked == {"sent", "failed"}

\* send_telegram(text) raises before any request when a credential is unset
\* or empty; otherwise the Bot API accepts the message or the call fails.
SendResults ==
    IF Truthy(cfg.BOT_TOKEN) /\ Truthy(cfg.CHAT_ID) THEN {"sent", "failed"} ELSE {"noconfig"}

SendError(res) == IF res = "noconfig" THEN "Faltan BOT_TOKEN o CHAT_ID" ELSE "NetworkError"

send_telegram(text, res) == calls' = Append(calls, [text |-> text, result |-> res])

\* An exception leaves run(): control passes to the except clause of line 187.
Raise(e) == pc' = "handler" /\ err' = Some(e)

\* Lines 162-167
Coordinates ==
    /\ pc = "start"
    /\ IF Truthy(cfg.LAT) /\ Truthy(cfg.LON)
       THEN LET lat == PyFloat(cfg.LAT[1])
                lon == PyFloat(cfg.LON[1])
                env == IF cfg.CITY = None THEN "" ELSE cfg.CITY[1]
            IN  /\ IF lat = None \/ lon = None
                   THEN /\ Raise(PyFloatError(IF lat = None THEN cfg.LAT[1]
                                                             ELSE cfg.LON[1]))
                        /\ place' = place
                   ELSE /\ place' = Some([lat |-> lat[1], lon |-> lon[1],
                                          city_shown |-> IF env = ""
                                                         THEN lat[1] \o "," \o lon[1]
                                                         ELSE env])
                        /\ pc' = "weather"
                        /\ err' = err
                /\ http' = http
       ELSE \E answer \in GeocodeAnswers :
              LET g == geocode(CITY, answer)
              IN  /\ http' = Append(http, Request("geocode", 0))
                  /\ IF g.raised # None
                     THEN Raise(g.raised[1]) /\ place' = place
                     ELSE place' = g.value /\ pc' = "weather" /\ err' = err
    /\ UNCHANGED <<cfg, now, web, daily, agenda, outcome, msg, calls, status>>

\* A run that notes the failure of fetch_weather and goes on with an empty
\* forecast.
FetchWeatherContinues ==
    /\ pc = "weather"
    /\ http' = Append(http, Request("weather", 0))
    /\ \/ /\ err' = Some("HTTPError")
          /\ daily' = Some(Forecast(None, None, 0))
          /\ pc' = "agenda"
       \/ \E d \in ForecastPool : daily' = Some(d) /\ pc' = "agenda" /\ err' = err
    /\ UNCHANGED <<cfg, now, web, place, agenda, outcome, msg, calls, status>>

\* Line 169: fetch_weather fails, or returns the daily block.
FetchWeather ==
    /\ pc = "weather"
    /\ http' = Append(http, Request("weather", 0))
    /\ \/ Raise("HTTPError") /\ daily' = daily
       \/ \E d \in ForecastPool : daily' = Some(d) /\ pc' = "agenda" /\ err' = err
    /\ UNCHANGED <<cfg, now, web, place, agenda, outcome, msg, calls, status>>

\* What the calendar URLs answer during a run.
RunCalendars ==
    {Failure, Calendar(<<>>), Calendar(<<Festival>>), Calendar(<<Draft, Backwards>>)}

\* Lines 170-171: the agenda is fetched and the message composed.
FetchAgenda ==
    /\ pc = "agenda"
    /\ \E answers \in [1..Len(cfg.ICAL_URLS) -> RunCalendars] :
          \E r \in {fetch_ics_events_today(cfg.ICAL_URLS, cfg.TZ_NAME, now, answers)} :
              /\ web' = answers
              /\ http' = http \o [i \in 1..Len(r.requests) |-> Request("ics", r.requests[i])]
              /\ IF r.raised
                 THEN /\ Raise("can't compare offset-naive and offset-aware datetimes")
                      /\ outcome' = "raised"
                      /\ UNCHANGED <<agenda, msg>>
                 ELSE /\ agenda' = r.events
                      /\ outcome' = "returned"
                      /\ msg' = <<nice_weather_text_2days(place[1].city_shown, daily[1]),
                                  "\n\n", format_agenda(r.events)>>
                      /\ pc' = "send1"
                      /\ err' = err
    /\ UNCHANGED <<cfg, now, place, daily, calls, status>>

\* Line 172: the message is sent.
SendFirst ==
    /\ pc = "send1"
    /\ \E res \in SendResults :
          /\ send_telegram(msg, res)
          /\ IF res = "sent" THEN pc' = "send2" /\ err' = err ELSE Raise(SendError(res))
    /\ UNCHANGED <<cfg, now, web, place, daily, agenda, outcome, msg, http, status>>

\* Lines 174-182: the warning is prepended when rain is likely, and the
\* message is sent.
SendFinal ==
    /\ pc = "send2"
    /\ msg' = IF RainWarning(daily[1]) THEN <<Banner>> \o msg ELSE msg
    /\ \E res \in SendResults :
          /\ send_telegram(msg', res)
          /\ IF res = "sent"
             THEN pc' = "done" /\ err' = err /\ status' = Some(0)
             ELSE Raise(SendError(res)) /\ status' = status
    /\ UNCHANGED <<cfg, now, web, place, daily, agenda, outcome, http>>

\* A handler without the final raise: the process exits with success.
ReportErrorSwallowed ==
    /\ pc = "handler"
    /\ \E res \in SendResults :
          send_telegram(<<":warning: Error en bot: '", err[1], "'">>, res)
    /\ pc' = "failed"
    /\ status' = Some(0)
    /\ UNCHANGED <<cfg, now, web, place, daily, agenda, outcome, msg, http, err>>

\* Lines 187-192: the error is reported, whatever the report's fate the
\* exception is raised again and the process exits with a failure.
ReportError ==
    /\ pc = "handler"
    /\ \E res \in SendResults :
          send_telegram(<<":warning: Error en bot: '", err[1], "'">>, res)
    /\ pc' = "failed"
    /\ status' = Some(1)
    /\ UNCHANGED <<cfg, now, web, place, daily, agenda, outcome, msg, http, err>>

Credentials == {None, Some("123:abc")}

Configs ==
    [BOT_TOKEN : Credentials,
     CHAT_ID   : {None, Some("42")},
     CITY      : {None, Some("Cordoba")},
     TZ_NAME   : {DefaultZone, "Mars/Olympus"},
     ICAL_URLS : {LoadUrls(e) : e \in SeqsUpTo(UrlPool, MaxSources)},
     LAT       : {None, Some("x"), Some("-31.06")},
     LON       : {None, Some("-64.3")}]

\* Instants of the clock: 12:00 UTC of today, and 23:00 UTC, when it is
\* already tomorrow in Brisbane.
Noon == Today + 12 * HourSecs

Evening == Today + 23 * HourSecs

Init ==
    /\ cfg \in Configs
    /\ now = Noon
    /\ web = <<>>
    /\ pc = "start"
    /\ place = None
    /\ daily = None
    /\ agenda = <<>>
    /\ outcome = "none"
    /\ msg = <<>>
    /\ http = <<>>
    /\ calls = <<>>
    /\ err = None
    /\ status = None

Next == Coordinates \/ FetchWeather \/ FetchAgenda \/ SendFirst \/ SendFinal \/ ReportError

Spec == Init /\ [][Next]_vars

-----------------------------------------------------------------------------
(* fetch_ics_events_today and format_agenda called on their own *)

Zones == {"America/Argentina/Cordoba", "UTC", "Australia/Brisbane"}

\* URL lists of length n: quoted URLs, the first entry possibly blank.
UrlLists(n) ==
    {[i \in 1..n |-> IF i = b THEN BlankUrl ELSE QuotedUrl] : b \in {0, 1}}

AgendaConfig(tzname, urls) ==
    [BOT_TOKEN |-> None, CHAT_ID |-> None, CITY |-> None, TZ_NAME |-> tzname,
     ICAL_URLS |-> urls, LAT |-> None, LON |-> None]

InitAgenda ==
    /\ \E n \in 0..MaxSources : \E urls \in UrlLists(n) : \E failing \in SUBSET (1..n) :
          \E k \in 0..MaxEvents : \E evs \in [1..k -> EventPool] : \E owner \in [1..k -> 1..n] :
             \E tzname \in Zones :
                /\ \A i \in 1..n : urls[i] = BlankUrl => i \in failing
                /\ \A j \in 1..k : owner[j] \notin failing
                /\ \A j \in 1..k : j > 1 => owner[j - 1] <= owner[j]
                /\ cfg = AgendaConfig(tzname, urls)
                /\ web = AnswersOf(n, failing, evs, owner)
    /\ now \in {Noon, Evening}
    /\ pc = "call"
    /\ place = None
    /\ daily = None
    /\ agenda = <<>>
    /\ outcome = "none"
    /\ msg = <<>>
    /\ http = <<>>
    /\ calls = <<>>
    /\ err = None
    /\ status = None

\* text = format_agenda(fetch_ics_events_today(urls, tzname))
CallAgenda ==
    /\ pc = "call"
    /\ \E r \in {fetch_ics_events_today(cfg.ICAL_URLS, cfg.TZ_NAME, now, web)} :
           /\ agenda' = r.events
           /\ outcome' = IF r.raised THEN "raised" ELSE "returned"
           /\ http' = http \o [i \in 1..Len(r.requests) |-> Request("ics", r.requests[i])]
           /\ msg' = IF r.raised THEN msg ELSE <<format_agenda(r.events)>>
    /\ pc' = "called"
    /\ UNCHANGED <<cfg, now, web, place, daily, calls, err, status>>

NextAgenda == CallAgenda

SpecAgenda == InitAgenda /\ [][NextAgenda]_vars

-----------------------------------------------------------------------------
(* Properties of fetch_ics_events_today and format_agenda, under SpecAgenda *)

Called == pc = "called"

ZoneOffset == gettz(cfg.TZ_NAME)[1]

WinStart == WindowStart(now, ZoneOffset)

WinEnd == WindowEnd(WinStart)

Occurrences(seq, x) == Cardinality({i \in DOMAIN seq : seq[i] = x})

\* The sources that were requested and answered with a calendar.
Fetched == {i \in DOMAIN web : CleanUrl(cfg.ICAL_URLS[i]) # <<>> /\ web[i].ok}

\* The sources whose request or parse failed.
Failing == {i \in DOMAIN web : CleanUrl(cfg.ICAL_URLS[i]) # <<>> /\ ~web[i].ok}

\* The raw events of the fetched sources, in discovery order.
RECURSIVE Discovered(_)
Discovered(i) ==
    IF i > Len(web) THEN <<>>
    ELSE (IF i \in Fetched THEN web[i].events ELSE <<>>) \o Discovered(i + 1)

LocalStart(e) == to_local_dt(e.begin[1], ZoneOffset)

LocalEnd(e) == to_local_dt(IF e.end = None THEN e.begin[1] ELSE e.end[1], ZoneOffset)

TupleOf(e) == <<LocalStart(e), LocalEnd(e), e.name, e.all_day, e.location>>

InWindow(e) ==
    /\ e.begin # None
    /\ LocalEnd(e).wall > WinStart.wall
    /\ LocalStart(e).wall < WinEnd.wall

\* C3: a raw event of a fetched source is in the agenda, as often as the
\* sources yield it, if and only if it has a begin, its local end (its begin
\* when it has no end) is after the window's start and its local start is
\* before the window's end; an event without a begin is never kept.
C3_KeptIffIntersects ==
    Called =>
        LET found == Discovered(1)
        IN  /\ outcome = "returned"
            /\ \A e \in EventPool :
                  IF e.begin = None
                  THEN \A k \in DOMAIN agenda : agenda[k][3] # e.name
                  ELSE Occurrences(agenda, TupleOf(e))
                         = (IF InWindow(e) THEN Occurrences(found, e) ELSE 0)
            /\ Len(agenda) = Cardinality({k \in DOMAIN found : InWindow(found[k])})

\* A fetched event ends exactly at the window's start, another starts exactly
\* at the window's end, after a third of a second source without a begin;
\* none of them is kept.
C3_Witness ==
    /\ Called
    /\ \E k \in DOMAIN Discovered(1) :
          LET e == Discovered(1)[k]
          IN  e.begin # None /\ e.end # None /\ LocalEnd(e).wall = WinStart.wall
              /\ LocalStart(e).wall < WinStart.wall
    /\ \E k \in DOMAIN Discovered(1) :
          LET e == Discovered(1)[k]
          IN  e.begin # None /\ LocalStart(e).wall = WinEnd.wall
    /\ agenda = <<>>

\* An event that starts before the window's end and ends after it is kept,
\* and so is one whose end is absent and whose begin is inside the window.
C3_WitnessKept ==
    /\ Called
    /\ \E k \in DOMAIN agenda :
          agenda[k][1].wall < WinEnd.wall /\ WinEnd.wall < agenda[k][2].wall
    /\ \E k \in DOMAIN Discovered(1) :
          LET e == Discovered(1)[k]
          IN  e.begin # None /\ e.end = None /\ Occurrences(agenda, TupleOf(e)) > 0

\* The positions of the sources that did not fail, in order.
Surviving == SelectSeq([i \in 1..Len(web) |-> i], LAMBDA i : i \notin Failing)

\* C4: the call returns, and its agenda is the one returned for the list of
\* the sources that did not fail, in the same order.
C4_FailingSourcesSkipped ==
    Called =>
        LET rest == Surviving
        IN  /\ outcome = "returned"
            /\ agenda = fetch_ics_events_today(
                            [k \in 1..Len(rest) |-> cfg.ICAL_URLS[rest[k]]],
                            cfg.TZ_NAME, now,
                            [k \in 1..Len(rest) |-> web[rest[k]]]).events

\* A source fails between or before sources whose events are kept.
C4_Witness ==
    /\ Called
    /\ \E i \in Failing : \E j \in Fetched : i < j /\ web[j].events # <<>>
    /\ Len(agenda) >= 2

\* The kept events in discovery order.
KeptInOrder ==
    LET kept == SelectSeq(Discovered(1), InWindow)
    IN  [k \in 1..Len(kept) |-> TupleOf(kept[k])]

\* C8: the agenda is in ascending order of local start and holds the kept
\* events; the events of one start are in their discovery order.
C8_SortedStable ==
    Called =>
        LET kept == KeptInOrder
        IN  /\ Len(agenda) = Len(kept)
            /\ \A i, j \in DOMAIN agenda : i < j => agenda[i][1].wall <= agenda[j][1].wall
            /\ \A x \in {agenda[k] : k \in DOMAIN agenda} :
                  SelectSeq(agenda, LAMBDA y : y[1].wall = x[1].wall)
                    = SelectSeq(kept, LAMBDA y : y[1].wall = x[1].wall)

\* Two different events of one start, yielded by two sources, are kept.
C8_Witness ==
    /\ Called
    /\ Cardinality(Fetched) >= 2
    /\ \A i \in Fetched : Len(web[i].events) = 1
    /\ \E i, j \in DOMAIN agenda : i < j /\ agenda[i][1] = agenda[j][1] /\ agenda[i] # agenda[j]

\* The agenda is not in discovery order: the sort moved an event.
C8_WitnessMoved == Called /\ Len(agenda) >= 2 /\ agenda # KeptInOrder

\* C9: an all-day event dated today with a naive begin, yielded by one
\* source, is in the agenda with its start at the local midnight of today,
\* before a timed event of another source that starts at 09:00 local time.
C9_AllDayAtLocalMidnight ==
    Called =>
        \A i, j \in Fetched : \A a \in DOMAIN web[i].events : \A b \in DOMAIN web[j].events :
            LET allday == web[i].events[a]
                timed  == web[j].events[b]
            IN  ( /\ i # j
                  /\ allday.all_day
                  /\ allday.begin = Some(Naive(WinStart.wall))
                  /\ ~timed.all_day
                  /\ timed.begin # None
                  /\ LocalStart(timed).wall = WinStart.wall + 9 * HourSecs )
                => \E p, q \in DOMAIN agenda :
                      /\ p < q
                      /\ agenda[p][3] = allday.name
                      /\ agenda[p][4]
                      /\ agenda[p][1].wall = WinStart.wall
                      /\ agenda[q] = TupleOf(timed)

\* The same without the order: the all-day event is kept with its start at
\* local midnight.
C9_AllDayKeptAtMidnight ==
    Called =>
        \A i \in Fetched : \A a \in DOMAIN web[i].events :
            LET allday == web[i].events[a]
            IN  (allday.all_day /\ allday.begin = Some(Naive(WinStart.wall)))
                => \E p \in DOMAIN agenda :
                      agenda[p][3] = allday.name /\ agenda[p][1].wall = WinStart.wall

\* The duration the lines show for an event of the given length in seconds,
\* with hours shown when the hour count H is positive.
DurationIfPositive(secs) ==
    LET mins == secs \div 60
        H    == mins \div 60
        M    == mins % 60
    IN  IF H > 0 THEN IntStr(H) \o "h " \o IntStr(M) \o "m" ELSE IntStr(M) \o "m"

\* The same with hours shown when H is not zero.
DurationIfNonZero(secs) ==
    LET mins == secs \div 60
        H    == mins \div 60
        M    == mins % 60
    IN  IF H # 0 THEN IntStr(H) \o "h " \o IntStr(M) \o "m" ELSE IntStr(M) \o "m"

\* The rendered text, given the duration of each timed event's line: the
\* placeholder for an empty agenda; else the header and one line per event,
\* an all-day line without time and duration, a timed line with the start's
\* HH:MM, the duration, the name and the location if any.
RenderedAs(dur(_)) ==
    LET line(ev) ==
            IF ev[4] THEN ":bullet: (Todo el dia) -- *" \o FmtStr(ev[3]) \o "*"
            ELSE Pad2((ev[1].wall % DaySecs) \div HourSecs) \o ":"
                 \o Pad2((ev[1].wall % HourSecs) \div MinuteSecs)
                 \o " (" \o dur(ev[2].wall - ev[1].wall) \o ") -- *" \o FmtStr(ev[3]) \o "*"
                 \o (IF ev[5] # None /\ ev[5][1] # "" THEN " @ " \o ev[5][1] ELSE "")
    IN  IF agenda = <<>> THEN ":calendar: *Agenda de hoy*\n(No hay eventos)\n"
        ELSE Join(<<":calendar: *Agenda de hoy*">> \o [k \in DOMAIN agenda |-> line(agenda[k])],
                  "\n") \o "\n"

\* C10 as stated: the duration of a timed event is "<H>h <M>m" when H > 0 and
\* "<M>m" otherwise, with mins the floor of the length in minutes, H = mins
\* div 60 and M = mins mod 60.
C10_DurationHoursPositive == Called => msg = <<RenderedAs(DurationIfPositive)>>

\* C10 as amended: "<H>h <M>m" when H is not zero, "<M>m" when H = 0; 90
\* minutes show as 1h 30m, 45 minutes 30 seconds as 45m, an absent end as 0m.
C10_DurationHoursNonZero ==
    Called =>
        LET lines == AgendaLines(agenda)
        IN  /\ msg = <<RenderedAs(DurationIfNonZero)>>
            /\ \A k \in DOMAIN agenda :
                  LET ev   == agenda[k]
                      secs == ev[2].wall - ev[1].wall
                      head == ClockStr(ev[1]) \o " ("
                      rest == ") -- *" \o FmtStr(ev[3]) \o "*"
                              \o (IF Truthy(ev[5]) THEN " @ " \o ev[5][1] ELSE "")
                  IN  ~ev[4] =>
                        /\ secs = 5400 => lines[k + 1] = head \o "1h 30m" \o rest
                        /\ secs = 2730 => lines[k + 1] = head \o "45m" \o rest
                        /\ secs = 0 => lines[k + 1] = head \o "0m" \o rest
                        /\ secs = -1830 => lines[k + 1] = head \o "-1h 29m" \o rest

\* The agenda holds a timed event of an hour or more and one whose length is
\* not a whole number of minutes.
C10_Witness ==
    /\ Called
    /\ \E k \in DOMAIN agenda : ~agenda[k][4] /\ agenda[k][2].wall - agenda[k][1].wall >= HourSecs
    /\ \E k \in DOMAIN agenda :
          ~agenda[k][4] /\ (agenda[k][2].wall - agenda[k][1].wall) % MinuteSecs # 0

-----------------------------------------------------------------------------
(* Properties of the run, under Spec *)

Exited == pc \in {"done", "failed"}

Delivered == {i \in DOMAIN calls : calls[i].result = "sent"}

\* An invocation of send_telegram with the handler's error report.
IsErrorReport(c) == Len(c.text) = 3 /\ c.text[1] = ":warning: Error en bot: '"

\* An invocation with the weather and agenda message.
IsNotification(c) == ~IsErrorReport(c)

Requests(kind) == {i \in DOMAIN http : http[i].kind = kind}

\* C1: a run that obtained the coordinates and the forecast, and in which
\* every send succeeded, has invoked send_telegram exactly once when it exits.
C1_ExactlyOneMessage ==
    (Exited /\ place # None /\ daily # None /\ \A i \in DOMAIN calls : calls[i].result = "sent")
        => Len(calls) = 1

\* Today's or tomorrow's precipitation probability is known and at least 50.
RainLikely ==
    /\ daily # None
    /\ \E d \in {1, 2} :
          LET pp == daily[1].precipitation_probability_max[d]
          IN  pp # None /\ pp[1] >= 50

\* C2: when rain is likely, every weather and agenda message delivered to the
\* notifier begins with the warning banner.
C2_BannerOnEveryMessage ==
    RainLikely =>
        \A i \in Delivered : IsNotification(calls[i]) => calls[i].text[1] = Banner

CredentialsMissing == ~Truthy(cfg.BOT_TOKEN) \/ ~Truthy(cfg.CHAT_ID)

\* LAT or LON is unset and geocoding found no coordinates.
NoCoordinates ==
    /\ ~(Truthy(cfg.LAT) /\ Truthy(cfg.LON))
    /\ err = Some("No se encontraron coordenadas")

\* C5 as stated: with a credential unset, or without coordinates, no message
\* is delivered at any point of the run, and the run ends with a failure.
C5_NoMessageWithoutConfig ==
    (CredentialsMissing \/ NoCoordinates) =>
        /\ Delivered = {}
        /\ pc # "done"
        /\ Exited => status = Some(1)

\* C5 as amended: with a credential unset no message is delivered at any
\* point of the run; without coordinates no forecast or calendar is
\* requested and no weather and agenda message is sent, the only invocation
\* of send_telegram being the handler's error report; in both cases the run
\* ends with a failure.
C5_NoNotificationWithoutConfig ==
    /\ CredentialsMissing => Delivered = {}
    /\ NoCoordinates =>
          /\ Requests("weather") = {} /\ Requests("ics") = {}
          /\ \A i \in DOMAIN calls :
                calls[i].text = <<":warning: Error en bot: '", err[1], "'">>
          /\ Len(calls) <= 1
    /\ (CredentialsMissing \/ NoCoordinates) =>
          /\ pc # "done"
          /\ Exited => status = Some(1)

\* The run has ended without coordinates and the error report was delivered.
C5_Witness ==
    /\ pc = "failed"
    /\ NoCoordinates
    /\ Delivered = {1}

\* The run has ended with a failure when a credential was unset and the
\* coordinates, the forecast and the agenda had been obtained.
C5_WitnessCredentials ==
    /\ pc = "failed"
    /\ CredentialsMissing
    /\ outcome = "returned"
    /\ Len(calls) = 2

ErrorReports == {i \in DOMAIN calls : IsErrorReport(calls[i])}

\* C6: at every point of a run, an exception out of run() has taken control
\* to the handler, which has not reported yet and can always go on; a run
\* that failed has invoked send_telegram exactly once with the error report,
\* after the failure, and has the failure status whatever the outcome of
\* that send; a run that ended with success met no failure and sent no
\* error report.
C6_FailureReportedOnce ==
    /\ err # None => pc \in {"handler", "failed"}
    /\ pc = "handler" => err # None /\ ErrorReports = {} /\ status = None /\ ENABLED ReportError
    /\ pc = "failed" =>
          /\ err # None
          /\ status = Some(1)
          /\ ErrorReports = {Len(calls)}
          /\ calls[Len(calls)].text = <<":warning: Error en bot: '", err[1], "'">>
    /\ pc = "done" => err = None /\ status = Some(0) /\ ErrorReports = {}
    /\ pc \notin {"handler", "failed", "done"} => err = None /\ status = None /\ ErrorReports = {}

\* The run has ended with a failure after the agenda could not be built,
\* and the error report itself failed.
C6_Witness ==
    /\ pc = "failed"
    /\ outcome = "raised"
    /\ calls[Len(calls)].result = "failed"

\* The request of the forecast failed.
WeatherFailed == Requests("weather") # {} /\ err = Some("HTTPError")

\* C7: after a failed weather fetch no calendar is requested, no weather and
\* agenda message is sent and the run does not end with success; a weather
\* and agenda message is sent only once the forecast is there and every
\* calendar URL has been requested, in order.
C7_WeatherFailureFatal ==
    /\ WeatherFailed =>
          /\ Requests("ics") = {}
          /\ \A i \in DOMAIN calls : IsErrorReport(calls[i])
          /\ pc \in {"handler", "failed"}
          /\ Exited => status = Some(1)
    /\ (\E i \in DOMAIN calls : IsNotification(calls[i])) =>
          /\ daily # None
          /\ outcome = "returned"
          /\ SelectSeq(http, LAMBDA r : r.kind = "ics")
               = [i \in 1..Len(cfg.ICAL_URLS) |-> Request("ics", i)]
          /\ \A i \in Requests("weather") : \A j \in Requests("ics") : i < j

\* The run has ended with a failure after a failed weather fetch, with two
\* calendar URLs configured and the error report delivered.
C7_Witness ==
    /\ pc = "failed"
    /\ WeatherFailed
    /\ Len(cfg.ICAL_URLS) >= 2
    /\ Delivered = {1}

\* A weather and agenda message was delivered after two calendars were
\* requested, one of which failed.
C7_WitnessSent ==
    /\ \E i \in Delivered : IsNotification(calls[i])
    /\ Cardinality(Requests("ics")) >= 2
    /\ \E i \in DOMAIN web : ~web[i].ok

====
